---- MODULE Spec2Model ----
(***************************************************************************)
(* RF Test Runner: the results-service supervisor (resultsService.ts), the *)
(* test-run supervisor and command builder (testRunner.ts), the message    *)
(* handlers of the view provider (webviewProvider.ts) and the extension's  *)
(* activation / deactivation (extension.ts).                               *)
(*                                                                         *)
(* A string is a sequence of atoms.  An atom is a piece of text the code   *)
(* never looks inside: a literal of the source ("--headless", "true") or   *)
(* one character of user text ("a", " ", "\n").                            *)
(***************************************************************************)
EXTENDS FiniteSets, Integers, Sequences, TLC

VARIABLES
    procs,              \* every child process spawned so far, by pid (index)
    foreign,            \* foreign[p]: a process of another program is bound to port p
    rs_isRunning,       \* ResultsServiceManager._isRunning
    rs_port,            \* ResultsServiceManager._port
    rs_process,         \* ResultsServiceManager.process (0 = null, else a pid)
    rs_pending,         \* start() calls suspended in killProcessOnPort's wait
    tr_isRunning,       \* TestRunner._isRunning
    tr_currentProcess,  \* TestRunner.currentProcess (0 = null, else a pid)
    config,             \* RFTestRunnerViewProvider.config
    viewResolved,       \* RFTestRunnerViewProvider._view is set
    active,             \* the extension is activated and not yet deactivated
    bc_call,            \* the latest call of buildCommand: its inputs and result
    rs_timers,          \* the browser-open timers armed by start() and not yet fired
    wv_environment,     \* the webview's 'environment' select (webview script)
    fsTests,            \* the workspace's Tests folder on disk
    testItems,          \* RFTestRunnerViewProvider.testItems
    pf_call,            \* the latest call of parseRobotFile: the file and the result
    out                 \* what the latest handler did: return value, message, signals

vars == << procs, foreign, rs_isRunning, rs_port, rs_process, rs_pending,
           tr_isRunning, tr_currentProcess, config, viewResolved, active,
           bc_call, rs_timers, wv_environment, fsTests, testItems, pf_call, out >>

\* The state of the test catalog scanner
scanVars == << fsTests, testItems, pf_call >>

-----------------------------------------------------------------------------
(* Bounds of the model.                                                    *)

\* The number of spawns, the ones a suspended start() is still to make included
MaxProcs == 2
MaxTextLen == 2

-----------------------------------------------------------------------------
(* Strings.                                                                *)

Chars == {"a", " ", "\n"}

IsWs(ch) == ch \in {" ", "\n", "\t"}

RECURSIVE trimStart(_)
trimStart(s) ==
    IF s = << >> THEN s
    ELSE IF IsWs(Head(s)) THEN trimStart(Tail(s)) ELSE s

RECURSIVE trimEnd(_)
trimEnd(s) ==
    IF s = << >> THEN s
    ELSE IF IsWs(s[Len(s)]) THEN trimEnd(SubSeq(s, 1, Len(s) - 1)) ELSE s

trim(s) == trimEnd(trimStart(s))

RECURSIVE split(_, _)
split(s, sep) ==
    IF \A i \in 1..Len(s) : s[i] # sep THEN << s >>
    ELSE LET i == CHOOSE k \in 1..Len(s) :
                      s[k] = sep /\ \A j \in 1..(k - 1) : s[j] # sep
         IN  << SubSeq(s, 1, i - 1) >> \o split(SubSeq(s, i + 1, Len(s)), sep)

RECURSIVE join(_, _)
join(parts, sep) ==
    IF parts = << >> THEN << >>
    ELSE IF Len(parts) = 1 THEN parts[1]
    ELSE parts[1] \o sep \o join(Tail(parts), sep)

\* lines.filter(v => v.trim()): the lines that are non-empty after trimming
RECURSIVE filterNonBlank(_)
filterNonBlank(s) ==
    IF s = << >> THEN << >>
    ELSE (IF trim(Head(s)) # << >> THEN << Head(s) >> ELSE << >>) \o filterNonBlank(Tail(s))

includes(s, x) == \E i \in 1..Len(s) : s[i] = x

BoolStr(b) == << IF b THEN "true" ELSE "false" >>

NumStr(n) == << ToString(n) >>

EndsWith(s, t) ==
    /\ Len(t) <= Len(s)
    /\ SubSeq(s, Len(s) - Len(t) + 1, Len(s)) = t

\* All strings over Chars of length at most n
RECURSIVE Texts(_)
Texts(n) ==
    IF n = 0 THEN { << >> }
    ELSE LET shorter == Texts(n - 1)
         IN  shorter \cup { Append(t, ch) : t \in shorter, ch \in Chars }

-----------------------------------------------------------------------------
(* TestConfig and the command builder (testRunner.ts).                     *)

Modes == {"docker", "local"}

defaultConfig ==
    [ selections            |-> << >>,
      customTestPath        |-> << >>,
      testCaseNames         |-> << >>,
      captchaSolver         |-> TRUE,
      windowFull            |-> FALSE,
      windowMaximized       |-> FALSE,
      headless              |-> FALSE,
      runOffline            |-> FALSE,
      devTools              |-> FALSE,
      chromeSecuritySandbox |-> FALSE,
      playwrightTracing     |-> FALSE,
      developmentEnvironment |-> << "uat" >>,
      executionEnv          |-> << "local" >>,
      omitContent           |-> FALSE,
      recordVideo           |-> FALSE,
      enableHar             |-> FALSE,
      windowHeight          |-> 1080,
      windowWidth           |-> 1920,
      contextType           |-> << "NORMAL" >>,
      logLevel              |-> << "TRACE" >>,
      reportTitle           |-> << "Unified", " ", "Report" >>,
      customVariables       |-> << >>,
      maximizeBrowser       |-> FALSE,
      autoCloseBrowser      |-> TRUE,
      keepVncOpen           |-> FALSE,
      fullWidthViewport     |-> FALSE,
      imageName             |-> << "robot-framework-custom:latest" >>,
      installDependencies   |-> FALSE,
      checkDeps             |-> FALSE ]

\* The loop of getTestPath: the distinct selection paths, in first-occurrence order
RECURSIVE collectPaths(_, _)
collectPaths(sels, paths) ==
    IF sels = << >> THEN paths
    ELSE LET sel == Head(sels)
             next == IF sel.type \in {"suite", "module"}
                     THEN IF ~includes(paths, sel.path) THEN Append(paths, sel.path) ELSE paths
                     ELSE IF sel.type = "test"
                     THEN IF ~includes(paths, sel.path) THEN Append(paths, sel.path) ELSE paths
                     ELSE paths
         IN  collectPaths(Tail(sels), next)

\* getTestPath looking at the selections before the custom path
getTestPath_selectionsFirst(c) ==
    IF Len(c.selections) > 0 /\ Len(collectPaths(c.selections, << >>)) > 0
    THEN join(collectPaths(c.selections, << >>), << " " >>)
    ELSE IF trim(c.customTestPath) # << >> THEN trim(c.customTestPath)
    ELSE << "Tests" >>

getTestPath(c) ==
    IF trim(c.customTestPath) # << >> THEN trim(c.customTestPath)
    ELSE IF Len(c.selections) = 0 THEN << "Tests" >>
    ELSE LET paths == collectPaths(c.selections, << >>)
         IN  IF Len(paths) > 0 THEN join(paths, << " " >>) ELSE << "Tests" >>

Flag(name) == << name >>

Opt(name, value) == << name, " " >> \o value

Quoted(name, value) == << name, " ", "\"" >> \o value \o << "\"" >>

mapVars(vars_) == [ i \in 1..Len(vars_) |-> Quoted("-v", trim(vars_[i])) ]

mapTests(names) == [ i \in 1..Len(names) |-> Quoted("--test", names[i]) ]

scriptName(mode) == IF mode = "docker" THEN "./run_tests.sh" ELSE "./run_tests_local.sh"

\* Script-level flags (no values): the bare switches, by mode
scriptFlags_noModeCheck(mode, c) ==
       (IF c.headless THEN << Flag("--headless") >> ELSE << >>)
    \o (IF c.maximizeBrowser THEN << Flag("--maximize-browser") >> ELSE << >>)
    \o (IF c.fullWidthViewport THEN << Flag("--full-width-viewport") >> ELSE << >>)
    \o (IF c.keepVncOpen THEN << Flag("--keep-vnc-open") >> ELSE << >>)
    \o (IF c.installDependencies THEN << Flag("--install-dependencies") >> ELSE << >>)
    \o (IF c.checkDeps THEN << Flag("--check-deps") >> ELSE << >>)

scriptFlags(mode, c) ==
       (IF c.headless THEN << Flag("--headless") >> ELSE << >>)
    \o (IF mode = "docker"
        THEN    (IF c.maximizeBrowser THEN << Flag("--maximize-browser") >> ELSE << >>)
             \o (IF c.fullWidthViewport THEN << Flag("--full-width-viewport") >> ELSE << >>)
             \o (IF c.keepVncOpen THEN << Flag("--keep-vnc-open") >> ELSE << >>)
        ELSE << >>)
    \o (IF mode = "local"
        THEN    (IF c.installDependencies THEN << Flag("--install-dependencies") >> ELSE << >>)
             \o (IF c.checkDeps THEN << Flag("--check-deps") >> ELSE << >>)
        ELSE << >>)

\* Options with values, and the one of them that is for docker only
valueOptions(mode, c) ==
       << Opt("--captcha-solver", BoolStr(c.captchaSolver)),
          Opt("--window-full", BoolStr(c.windowFull)),
          Opt("--window-maximized", BoolStr(c.windowMaximized)),
          Opt("--run-offline", BoolStr(c.runOffline)),
          Opt("--dev-tools", BoolStr(c.devTools)),
          Opt("--chrome-security-sandbox", BoolStr(c.chromeSecuritySandbox)),
          Opt("--playwright-tracing", BoolStr(c.playwrightTracing)),
          Opt("--environment", c.developmentEnvironment),
          Opt("--execution-env", c.executionEnv),
          Opt("--omit-content", BoolStr(c.omitContent)),
          Opt("--record-video", BoolStr(c.recordVideo)),
          Opt("--enable-har", BoolStr(c.enableHar)),
          Opt("--window-height", NumStr(c.windowHeight)),
          Opt("--window-width", NumStr(c.windowWidth)),
          Opt("--context-type", c.contextType),
          Opt("--log-level", c.logLevel),
          Quoted("--report-title", c.reportTitle) >>
    \o (IF mode = "docker"
        THEN << Opt("--auto-close-browser", BoolStr(c.autoCloseBrowser)) >>
        ELSE << >>)

\* Custom variables with the blank lines kept
variableParts_noFilter(c) ==
    IF trim(c.customVariables) # << >>
    THEN mapVars(split(c.customVariables, "\n"))
    ELSE << >>

\* Custom variables: one -v pair for each line that is not blank
variableParts(c) ==
    IF trim(c.customVariables) # << >>
    THEN mapVars(filterNonBlank(split(c.customVariables, "\n")))
    ELSE << >>

\* Individual test case names: one --test pair for each
testParts(c) ==
    IF Len(c.testCaseNames) > 0 THEN mapTests(c.testCaseNames) ELSE << >>

\* The command is the script name and the parts, joined by single spaces
commandOf(mode, parts) == << scriptName(mode), " " >> \o join(parts, << " " >>)

\* buildCommand with the test path pushed before the --test pairs
buildCommand_pathBeforeTests(mode, c) ==
    commandOf(mode, scriptFlags(mode, c) \o valueOptions(mode, c) \o variableParts(c)
                    \o << getTestPath(c) >> \o testParts(c))

\* buildCommand with the parts array kept from one call to the next
buildCommand_keepsParts(mode, c) ==
    LET parts == scriptFlags(mode, c) \o valueOptions(mode, c) \o variableParts(c)
                 \o testParts(c) \o << getTestPath(c) >>
    IN  IF bc_call.done THEN bc_call.result \o << " " >> \o join(parts, << " " >>)
        ELSE commandOf(mode, parts)

buildCommand(mode, c) ==
    commandOf(mode, scriptFlags(mode, c) \o valueOptions(mode, c) \o variableParts(c)
                    \o testParts(c) \o << getTestPath(c) >>)

-----------------------------------------------------------------------------
(* Operating-system processes.                                             *)

DefaultPort == 8080

Ports == {DefaultPort, DefaultPort + 1}

\* st: "alive"; "failed" (spawn failed, error event pending); "exitedCode" /
\* "exitedSig" (dead, close event pending); "closedCode" / "closedSig" (close
\* event delivered); "errored" (error event delivered)
Proc(owner, port, st) == [owner |-> owner, port |-> port, st |-> st]

Alive(owner) == { p \in DOMAIN procs : procs[p].owner = owner /\ procs[p].st = "alive" }

\* ChildProcess.pid is undefined when the spawn failed
hasPid(p) == p # 0 /\ procs[p].st \notin {"failed", "errored"}

\* ChildProcess.exitCode !== null: the process ended by exiting, not by a signal
exitCodeSet(p) == p # 0 /\ procs[p].st \in {"exitedCode", "closedCode"}

\* lsof reporting every live process of the extension, whatever it listens on
portHolders_anyOwner(port) ==
    { p \in DOMAIN procs : procs[p].st = "alive" }

\* The processes of this extension that `lsof -i :port -t` can report
portHolders(port) ==
    { p \in DOMAIN procs : procs[p].owner = "rs" /\ procs[p].port = port /\ procs[p].st = "alive" }

\* SIGKILL delivered to the processes K
kill9(ps, K) ==
    [ p \in DOMAIN ps |->
        IF p \in K /\ ps[p].st = "alive" THEN [ ps[p] EXCEPT !.st = "exitedSig" ] ELSE ps[p] ]

\* What lsof reports about the foreign process bound to a port, and whether the
\* kill of it succeeds
ForeignOutcomes(port) == IF foreign[port] THEN {"none", "killed", "survives"} ELSE {"none"}

-----------------------------------------------------------------------------
(* What a handler did (observed by the claims, never read by the handlers). *)

NoPost == [type |-> "none", running |-> FALSE, port |-> 0]

\* updateServiceStatus / updateRunnerStatus: this._view?.webview.postMessage
serviceStatus(running, port) ==
    IF viewResolved THEN [type |-> "serviceStatus", running |-> running, port |-> port]
    ELSE NoPost

runnerStatus(running) ==
    IF viewResolved THEN [type |-> "runnerStatus", running |-> running, port |-> 0]
    ELSE NoPost

\* wasRunning: the isRunning flag of the supervisor concerned when the handler began
Outcome(op, wasRunning, ret, msg, signalled, foreignKilled, spawned, posted) ==
    [ op |-> op, wasRunning |-> wasRunning, ret |-> ret, msg |-> msg, signalled |-> signalled,
      foreignKilled |-> foreignKilled, spawned |-> spawned, posted |-> posted ]

\* repeat: the call before this one had the same mode and an equal config
\* testPath: what getTestPath returned in the call
NoCall == [mode |-> "none", config |-> defaultConfig, testPath |-> << >>, result |-> << >>,
           done |-> FALSE, repeat |-> FALSE]

-----------------------------------------------------------------------------
(* ResultsServiceManager (resultsService.ts).                              *)

\* The synchronous part of killProcessOnPort: SIGTERM to every pid lsof reports.
\* own: the processes of this extension lsof reports; f: the foreign process.
killProcessOnPort(port, own, f) ==
    [ signalled     |-> own,
      foreignKilled |-> IF f = "killed" THEN {port} ELSE {},
      foreign       |-> [foreign EXCEPT ![port] = IF f = "killed" THEN FALSE ELSE @],
      waits         |-> own # {} \/ f # "none" ]

\* The options start() passes to cp.spawn
spawnOptions == [shell |-> TRUE, detached |-> FALSE]

\* A child leads a process group of its own only when it is spawned detached;
\* otherwise it is a member of the group of the extension host
isGroupLeader(p) == procs[p].owner = "rs" /\ spawnOptions.detached

\* The setTimeout callback armed by the start() that spawned pid for actualPort
Timer(pid, actualPort) == [pid |-> pid, port |-> actualPort]

\* start() whose catch leaves the flag set
spawnServer_flagOnThrow(actualPort, spawnRes) ==
    IF spawnRes = "throw"
    THEN [ procs |-> procs, process |-> rs_process, isRunning |-> TRUE,
           timers |-> rs_timers,
           ret |-> "false", msg |-> "error", spawned |-> 0 ]
    ELSE [ procs |-> Append(procs, Proc("rs", actualPort,
                                       IF spawnRes = "ok" THEN "alive" ELSE "failed")),
           process |-> Len(procs) + 1, isRunning |-> TRUE,
           timers |-> rs_timers \cup { Timer(Len(procs) + 1, actualPort) },
           ret |-> "true", msg |-> "none", spawned |-> Len(procs) + 1 ]

\* start() from the spawn on: the try block and its catch
spawnServer(actualPort, spawnRes) ==
    IF spawnRes = "throw"
    THEN [ procs |-> procs, process |-> rs_process, isRunning |-> FALSE,
           timers |-> rs_timers,
           ret |-> "false", msg |-> "error", spawned |-> 0 ]
    ELSE [ procs |-> Append(procs, Proc("rs", actualPort,
                                       IF spawnRes = "ok" THEN "alive" ELSE "failed")),
           process |-> Len(procs) + 1, isRunning |-> TRUE,
           timers |-> rs_timers \cup { Timer(Len(procs) + 1, actualPort) },
           ret |-> "true", msg |-> "none", spawned |-> Len(procs) + 1 ]

SpawnResults == {"ok", "fail", "throw"}

\* start() storing the requested port before it looks at isRunning
startRejected_storesPort(portArg) ==
    /\ rs_port' = (IF portArg # 0 THEN portArg ELSE rs_port)
    /\ out' = Outcome("rs.start", rs_isRunning, "false", "warning", {}, {}, 0,
                      serviceStatus(rs_isRunning, rs_port'))
    /\ UNCHANGED << procs, foreign, rs_isRunning, rs_process, rs_pending, rs_timers >>

\* start() called while isRunning is true: the warning and return false
startRejected(portArg) ==
    /\ out' = Outcome("rs.start", rs_isRunning, "false", "warning", {}, {}, 0,
                      serviceStatus(rs_isRunning, rs_port))
    /\ UNCHANGED << procs, foreign, rs_isRunning, rs_port, rs_process, rs_pending,
                    rs_timers >>

\* start() spawning the server first and looking at the port afterwards
startAccepted_spawnsBeforeWait(portArg, via) ==
    LET actualPort == IF portArg # 0 THEN portArg ELSE rs_port IN
    \E own \in SUBSET portHolders(actualPort), f \in ForeignOutcomes(actualPort),
       spawnRes \in SpawnResults :
      LET k == killProcessOnPort(actualPort, own, f)
          sp == spawnServer(actualPort, spawnRes) IN
      /\ Len(procs) + Len(rs_pending) < MaxProcs
      /\ rs_port' = actualPort
      /\ foreign' = k.foreign
      /\ procs' = sp.procs
      /\ rs_process' = sp.process
      /\ rs_isRunning' = sp.isRunning
      /\ rs_timers' = sp.timers
      /\ out' = Outcome(IF k.waits THEN "rs.start.wait" ELSE "rs.start", rs_isRunning, sp.ret,
                        sp.msg, k.signalled, k.foreignKilled, sp.spawned,
                        serviceStatus(sp.isRunning, actualPort))
      /\ UNCHANGED rs_pending

\* start() past the guard: the port is stored, killProcessOnPort runs, and the
\* call either waits (some pid was found) or goes on to spawn in the same turn
startAccepted(portArg, via) ==
    LET actualPort == IF portArg # 0 THEN portArg ELSE rs_port IN
    \E own \in SUBSET portHolders(actualPort), f \in ForeignOutcomes(actualPort) :
      LET k == killProcessOnPort(actualPort, own, f) IN
      /\ rs_port' = actualPort
      /\ foreign' = k.foreign
      /\ IF k.waits
         THEN /\ Len(procs) + Len(rs_pending) < MaxProcs
              /\ rs_pending' = Append(rs_pending, [port |-> actualPort, via |-> via])
              /\ out' = Outcome("rs.start.wait", rs_isRunning, "pending", "none", k.signalled,
                                k.foreignKilled, 0,
                                IF via = "cmd" THEN serviceStatus(rs_isRunning, actualPort)
                                ELSE NoPost)
              /\ UNCHANGED << procs, rs_isRunning, rs_process, rs_timers >>
         ELSE \E spawnRes \in SpawnResults :
                LET sp == spawnServer(actualPort, spawnRes) IN
                /\ Len(procs) + Len(rs_pending) < MaxProcs
                /\ procs' = sp.procs
                /\ rs_process' = sp.process
                /\ rs_isRunning' = sp.isRunning
                /\ rs_timers' = sp.timers
                /\ out' = Outcome("rs.start", rs_isRunning, sp.ret, sp.msg, k.signalled,
                                  k.foreignKilled, sp.spawned,
                                  IF via = "cmd" THEN serviceStatus(rs_isRunning, actualPort)
                                  ELSE serviceStatus(sp.isRunning, actualPort))
                /\ UNCHANGED rs_pending

\* start(port) called from the webview message ("msg", awaited) or from the
\* command ("cmd", not awaited: updateServiceStatus runs at start()'s first await)
start(portArg, via) ==
    IF rs_isRunning THEN startRejected(portArg) ELSE startAccepted(portArg, via)

\* A suspended start() resumes after killProcessOnPort's wait and spawns
StartResume ==
    /\ active
    /\ rs_pending # << >>
    /\ \E spawnRes \in SpawnResults :
         LET call == Head(rs_pending)
             sp == spawnServer(call.port, spawnRes) IN
         /\ rs_pending' = Tail(rs_pending)
         /\ procs' = sp.procs
         /\ rs_process' = sp.process
         /\ rs_isRunning' = sp.isRunning
         /\ rs_timers' = sp.timers
         /\ out' = Outcome("rs.start.resume", rs_isRunning, sp.ret, sp.msg, {}, {}, sp.spawned,
                           IF call.via = "msg" THEN serviceStatus(sp.isRunning, rs_port)
                           ELSE NoPost)
    /\ UNCHANGED << foreign, rs_port, tr_isRunning, tr_currentProcess, config,
                    viewResolved, active, bc_call, wv_environment >>
    /\ UNCHANGED scanVars

\* The outcomes of process.kill(-pid, 'SIGKILL'): a dead process has no group left
GroupKillResults(p) ==
    IF hasPid(p) /\ procs[p].st = "alive" THEN {"ok", "ESRCH", "EPERM"} ELSE {"ESRCH"}

\* What the primary kill of stop() came to: "skipped" when there is no process
\* handle or the handle has no pid, else the outcome of process.kill(-pid)
primaryKill(g) == IF hasPid(rs_process) THEN g ELSE "skipped"

\* stop() surfacing 'no such process' from the group signal as a failed stop
stop_errorOnESRCH(g, own, f) ==
    IF ~rs_isRunning /\ rs_process # 0 /\ exitCodeSet(rs_process)
    THEN [ procs |-> procs, foreign |-> foreign, isRunning |-> FALSE, ret |-> "true",
           msg |-> "none", signalled |-> {}, foreignKilled |-> {},
           primary |-> "skipped", secondary |-> FALSE ]
    ELSE IF primaryKill(g) = "ESRCH"
    THEN [ procs |-> procs, foreign |-> foreign, isRunning |-> rs_isRunning, ret |-> "false",
           msg |-> "error", signalled |-> {}, foreignKilled |-> {},
           primary |-> "ESRCH", secondary |-> FALSE ]
    ELSE LET grp == IF hasPid(rs_process) /\ g = "ok" THEN {rs_process} ELSE {}
         IN  [ procs |-> kill9(procs, grp \cup own),
               foreign |-> [foreign EXCEPT ![rs_port] = IF f = "killed" THEN FALSE ELSE @],
               isRunning |-> FALSE, ret |-> "true", msg |-> "info",
               signalled |-> grp \cup own,
               foreignKilled |-> IF f = "killed" THEN {rs_port} ELSE {},
               primary |-> primaryKill(g), secondary |-> TRUE ]

\* stop() giving up when the group signal fails with an error other than ESRCH
stop_rethrows(g, own, f) ==
    IF hasPid(rs_process) /\ g = "EPERM"
    THEN [ procs |-> procs, foreign |-> foreign, isRunning |-> rs_isRunning, ret |-> "false",
           msg |-> "error", signalled |-> {}, foreignKilled |-> {},
           primary |-> g, secondary |-> FALSE ]
    ELSE [ procs |-> kill9(procs, (IF hasPid(rs_process) /\ g = "ok" THEN {rs_process} ELSE {})
                                  \cup own),
           foreign |-> [foreign EXCEPT ![rs_port] = IF f = "killed" THEN FALSE ELSE @],
           isRunning |-> FALSE, ret |-> "true", msg |-> "info",
           signalled |-> (IF hasPid(rs_process) /\ g = "ok" THEN {rs_process} ELSE {}) \cup own,
           foreignKilled |-> IF f = "killed" THEN {rs_port} ELSE {},
           primary |-> primaryKill(g), secondary |-> TRUE ]

\* stop(): g is the outcome of process.kill(-pid, 'SIGKILL'); own and f are what
\* the two discovery steps (lsof by port, ps by process name) find and kill.
\* primary: what the group signal came to; secondary: the discovery steps ran
stop(g, own, f) ==
    IF ~rs_isRunning /\ rs_process # 0 /\ exitCodeSet(rs_process)
    THEN [ procs |-> procs, foreign |-> foreign, isRunning |-> FALSE, ret |-> "true",
           msg |-> "none", signalled |-> {}, foreignKilled |-> {},
           primary |-> "skipped", secondary |-> FALSE ]
    ELSE LET grp == IF hasPid(rs_process) /\ g = "ok" THEN {rs_process} ELSE {}
         IN  [ procs |-> kill9(procs, grp \cup own),
               foreign |-> [foreign EXCEPT ![rs_port] = IF f = "killed" THEN FALSE ELSE @],
               isRunning |-> FALSE, ret |-> "true", msg |-> "info",
               signalled |-> grp \cup own,
               foreignKilled |-> IF f = "killed" THEN {rs_port} ELSE {},
               primary |-> primaryKill(g), secondary |-> TRUE ]

-----------------------------------------------------------------------------
(* TestRunner (testRunner.ts).                                             *)

\* The two TestConfig values the view sends in this model
altConfig ==
    [ defaultConfig EXCEPT !.headless = TRUE, !.customTestPath = << "a" >>,
                           !.maximizeBrowser = TRUE, !.installDependencies = TRUE ]

ViewConfigs == {defaultConfig, altConfig}

\* run(mode, c); the caller posts the runner status right after (run awaits nothing)
run(mode, c) ==
    IF tr_isRunning
    THEN /\ out' = Outcome("tr.run", tr_isRunning, "void", "warning", {}, {}, 0, runnerStatus(tr_isRunning))
         /\ UNCHANGED << procs, tr_isRunning, tr_currentProcess, bc_call >>
    ELSE \E spawnRes \in SpawnResults :
           /\ Len(procs) + Len(rs_pending) < MaxProcs
           /\ bc_call' = [mode |-> mode, config |-> c, testPath |-> getTestPath(c),
                          result |-> buildCommand(mode, c), done |-> TRUE,
                          repeat |-> bc_call.done /\ bc_call.mode = mode /\ bc_call.config = c]
           /\ IF spawnRes = "throw"
              THEN /\ tr_isRunning' = FALSE
                   /\ out' = Outcome("tr.run", tr_isRunning, "void", "error", {}, {}, 0, runnerStatus(FALSE))
                   /\ UNCHANGED << procs, tr_currentProcess >>
              ELSE /\ tr_isRunning' = TRUE
                   /\ procs' = Append(procs, Proc("tr", 0,
                                          IF spawnRes = "ok" THEN "alive" ELSE "failed"))
                   /\ tr_currentProcess' = Len(procs) + 1
                   /\ out' = Outcome("tr.run", tr_isRunning, "void", "none", {}, {}, Len(procs) + 1,
                                     runnerStatus(TRUE))

\* TestRunner.stop(): k is "throw" when cp.exec or ChildProcess.kill throws
tr_stop(k) ==
    IF tr_currentProcess # 0 /\ tr_isRunning
    THEN IF k = "throw"
         THEN [ isRunning |-> tr_isRunning, msg |-> "error", signalled |-> {} ]
         ELSE [ isRunning |-> FALSE, msg |-> "info",
                signalled |-> IF procs[tr_currentProcess].st = "alive"
                              THEN {tr_currentProcess} ELSE {} ]
    ELSE [ isRunning |-> tr_isRunning, msg |-> "none", signalled |-> {} ]

KillResults == {"ok", "throw"}

-----------------------------------------------------------------------------
(* The test catalog scanner (webviewProvider.ts).  The text of a suite file *)
(* is a sequence of atoms: the characters the parser looks at ("*", " ",     *)
(* "\t", "#", "[", "\n"), letters, and words ("Test Cases", "TASKS").        *)

startsWith(s, t) == Len(t) <= Len(s) /\ SubSeq(s, 1, Len(t)) = t

\* String.prototype.toLowerCase on one atom
Lower(a) ==
    CASE a = "Test Cases" -> "test cases"
      [] a = "TASKS"      -> "tasks"
      [] a = "Settings"   -> "settings"
      [] a = "Keywords"   -> "keywords"
      [] OTHER            -> a

toLowerCase(s) == [ i \in 1..Len(s) |-> Lower(s[i]) ]

\* sectionName.includes(word), word one of 'test case' and 'task'
includesWord(s, word) ==
    \E i \in 1..Len(s) :
       \/ word = "test case" /\ s[i] \in {"test cases", "test case"}
       \/ word = "task" /\ s[i] \in {"tasks", "task"}

starsAt(s, j) == j + 2 <= Len(s) /\ s[j] = "*" /\ s[j + 1] = "*" /\ s[j + 2] = "*"

\* trimmedLine.match(/\*{3}\s*(.*?)\s*\*{3}/i) for a line that starts with '***':
\* the name runs from the first non-blank after the stars to the blanks before
\* the next '***'; there is no match when no '***' follows
sectionMatch(t) ==
    LET k == CHOOSE i \in 4..(Len(t) + 1) :
                 /\ \A h \in 4..(i - 1) : IsWs(t[h])
                 /\ i <= Len(t) => ~IsWs(t[i])
        J == { j \in k..Len(t) : starsAt(t, j) }
    IN  IF J = {} THEN [matched |-> FALSE, name |-> << >>]
        ELSE LET j == CHOOSE x \in J : \A y \in J : x <= y
                 e == CHOOSE x \in k..j :
                          /\ \A h \in x..(j - 1) : IsWs(t[h])
                          /\ x > k => ~IsWs(t[x - 1])
             IN  [matched |-> TRUE, name |-> SubSeq(t, k, e - 1)]

\* The header decides the section only when it matches
sectionAfter(trimmedLine, inTestCasesSection) ==
    LET sectionMatch_ == sectionMatch(trimmedLine) IN
    IF sectionMatch_.matched
    THEN LET sectionName == toLowerCase(sectionMatch_.name)
         IN  includesWord(sectionName, "test case") \/ includesWord(sectionName, "task")
    ELSE inTestCasesSection

\* The test of the loop body for a line that is no header
isTestName_noIndentCheck(line, inTestCasesSection) ==
    /\ inTestCasesSection
    /\ trim(line) # << >>
    /\ ~startsWith(trim(line), << "#" >>)
    /\ ~startsWith(trim(line), << "[" >>)

isTestName(line, inTestCasesSection) ==
    /\ inTestCasesSection
    /\ trim(line) # << >>
    /\ ~startsWith(line, << " " >>)
    /\ ~startsWith(line, << "\t" >>)
    /\ ~startsWith(trim(line), << "#" >>)
    /\ ~startsWith(trim(line), << "[" >>)

\* The loop of parseRobotFile over the lines
RECURSIVE parseLines(_, _, _)
parseLines(lines, inTestCasesSection, testCases) ==
    IF lines = << >> THEN testCases
    ELSE LET line == Head(lines)
             trimmedLine == trim(line)
         IN  IF startsWith(trimmedLine, << "*", "*", "*" >>)
             THEN parseLines(Tail(lines), sectionAfter(trimmedLine, inTestCasesSection),
                             testCases)
             ELSE parseLines(Tail(lines), inTestCasesSection,
                             IF isTestName(line, inTestCasesSection)
                             THEN Append(testCases, trimmedLine) ELSE testCases)

\* file: [readable, content]; readFileSync throws on an unreadable file, and the
\* catch returns the empty list
parseRobotFile(file) ==
    IF file.readable THEN parseLines(split(file.content, "\n"), FALSE, << >>) ELSE << >>

NoFile == [readable |-> FALSE, content |-> << >>]

NoParse == [file |-> NoFile, result |-> << >>, done |-> FALSE]

pathJoin(a, b) == a \o << "/" >> \o b

\* name.replace('.robot', ''): the first occurrence is removed
replaceRobot(name) ==
    IF \E i \in 1..Len(name) : name[i] = ".robot"
    THEN LET i == CHOOSE k \in 1..Len(name) :
                      name[k] = ".robot" /\ \A h \in 1..(k - 1) : name[h] # ".robot"
         IN  SubSeq(name, 1, i - 1) \o SubSeq(name, i + 1, Len(name))
    ELSE name

TestItem(name, path_, type, children, testName) ==
    [ name |-> name, path |-> path_, type |-> type, children |-> children,
      testName |-> testName ]

mapTestCases(testCases, itemRelativePath) ==
    [ i \in 1..Len(testCases) |->
        TestItem(testCases[i], itemRelativePath, "test", << >>, testCases[i]) ]

\* dir: [readable, entries]; an entry: [name, isDirectory, readable, entries, content].
\* readdirSync throws on an unreadable directory: the catch returns no item
RECURSIVE scanDirectory(_, _)
RECURSIVE scanEntries(_, _, _)

\* The loop of scanDirectory pushing a module for every sub-folder, also one
\* in which the scan found nothing
scanEntries_keepsEmptyModules(entries, relativePath, items) ==
    IF entries = << >> THEN items
    ELSE LET entry == Head(entries)
             itemRelativePath == pathJoin(relativePath, entry.name)
             next ==
               IF entry.isDirectory
               THEN Append(items, TestItem(entry.name, itemRelativePath, "module",
                                           scanDirectory(entry, itemRelativePath), << >>))
               ELSE IF EndsWith(entry.name, << ".robot" >>)
                       /\ ~startsWith(entry.name, << "__init__" >>)
               THEN LET testCases == parseRobotFile(entry)
                    IN  Append(items, TestItem(replaceRobot(entry.name), itemRelativePath,
                                               "suite",
                                               mapTestCases(testCases, itemRelativePath),
                                               << >>))
               ELSE items
         IN  scanEntries(Tail(entries), relativePath, next)

\* The loop of scanDirectory given up at the first suite file that cannot be
\* read: the items pushed so far are returned
scanEntries_stopsAtUnreadable(entries, relativePath, items) ==
    IF entries = << >> THEN items
    ELSE LET entry == Head(entries)
             itemRelativePath == pathJoin(relativePath, entry.name)
             isSuite == /\ ~entry.isDirectory
                        /\ EndsWith(entry.name, << ".robot" >>)
                        /\ ~startsWith(entry.name, << "__init__" >>)
             next ==
               IF entry.isDirectory
               THEN LET children == scanDirectory(entry, itemRelativePath)
                    IN  IF Len(children) > 0
                        THEN Append(items, TestItem(entry.name, itemRelativePath, "module",
                                                    children, << >>))
                        ELSE items
               ELSE IF isSuite
               THEN Append(items, TestItem(replaceRobot(entry.name), itemRelativePath,
                                           "suite",
                                           mapTestCases(parseRobotFile(entry),
                                                        itemRelativePath),
                                           << >>))
               ELSE items
         IN  IF isSuite /\ ~entry.readable THEN items
             ELSE scanEntries(Tail(entries), relativePath, next)

scanDirectory(dir, relativePath) ==
    IF dir.readable THEN scanEntries(dir.entries, relativePath, << >>) ELSE << >>

scanEntries(entries, relativePath, items) ==
    IF entries = << >> THEN items
    ELSE LET entry == Head(entries)
             itemRelativePath == pathJoin(relativePath, entry.name)
             next ==
               IF entry.isDirectory
               THEN LET children == scanDirectory(entry, itemRelativePath)
                    IN  IF Len(children) > 0
                        THEN Append(items, TestItem(entry.name, itemRelativePath, "module",
                                                    children, << >>))
                        ELSE items
               ELSE IF EndsWith(entry.name, << ".robot" >>)
                       /\ ~startsWith(entry.name, << "__init__" >>)
               THEN LET testCases == parseRobotFile(entry)
                    IN  Append(items, TestItem(replaceRobot(entry.name), itemRelativePath,
                                               "suite",
                                               mapTestCases(testCases, itemRelativePath),
                                               << >>))
               ELSE items
         IN  scanEntries(Tail(entries), relativePath, next)

\* scanForTests without the reset of the catalog before the folder is looked at
scanForTests_keepsItems(items, fs) ==
    IF ~fs.exists THEN items ELSE scanDirectory(fs, << "Tests" >>)

\* items: this.testItems before the scan; fs: [exists, readable, entries], the
\* folder 'Tests' of the workspace.  The result is this.testItems after the scan
scanForTests(items, fs) ==
    LET cleared == << >> IN
    IF ~fs.exists THEN cleared ELSE scanDirectory(fs, << "Tests" >>)

NoTests == [exists |-> FALSE, readable |-> FALSE, entries |-> << >>]

\* Entries of the folder: a suite file, another file, a sub-folder
FileEntry(name, readable, content) ==
    [ name |-> name, isDirectory |-> FALSE, readable |-> readable, entries |-> << >>,
      content |-> content ]

DirEntry(name, readable, entries) ==
    [ name |-> name, isDirectory |-> TRUE, readable |-> readable, entries |-> entries,
      content |-> << >> ]

TwoTests ==
    << "*", "*", "*", " ", "Test Cases", " ", "*", "*", "*", "\n",
       "x", "\n", " ", " ", "k", "\n", "y", " ", "\n", " ", " ", "k" >>

SuiteS == FileEntry(<< "s", ".robot" >>, TRUE, TwoTests)

SuiteNoTests == FileEntry(<< "e", ".robot" >>, TRUE, << "#", "x" >>)

SuiteUnreadable == FileEntry(<< "u", ".robot" >>, FALSE, TwoTests)

InitFile == FileEntry(<< "__init__", ".robot" >>, TRUE, TwoTests)

OtherFile == FileEntry(<< "r", ".md" >>, TRUE, << "x" >>)

TestsFolder(readable, entries) == [exists |-> TRUE, readable |-> readable, entries |-> entries]

\* The states of the folder 'Tests' the model puts on disk
FsSamples ==
    { NoTests,
      TestsFolder(FALSE, << SuiteS >>),
      TestsFolder(TRUE, << >>),
      TestsFolder(TRUE, << SuiteS >>),
      TestsFolder(TRUE, << SuiteNoTests, InitFile, OtherFile >>),
      TestsFolder(TRUE, << SuiteUnreadable, SuiteS >>),
      TestsFolder(TRUE, << DirEntry(<< "m" >>, TRUE, << SuiteS >>), SuiteS >>),
      TestsFolder(TRUE, << DirEntry(<< "m" >>, TRUE, << OtherFile >>) >>),
      TestsFolder(TRUE, << DirEntry(<< "m" >>, FALSE, << SuiteS >>), SuiteNoTests >>),
      TestsFolder(TRUE, << DirEntry(<< "m" >>, TRUE,
                                    << DirEntry(<< "n" >>, TRUE, << SuiteS >>) >>) >>),
      TestsFolder(TRUE, << DirEntry(<< "m" >>, TRUE,
                                    << DirEntry(<< "n" >>, TRUE, << >>), InitFile >>),
                           SuiteS >>),
      TestsFolder(TRUE, << DirEntry(<< "m" >>, TRUE,
                                    << DirEntry(<< "n" >>, TRUE, << OtherFile >>),
                                       SuiteNoTests >>),
                           DirEntry(<< "d" >>, TRUE,
                                    << SuiteS, DirEntry(<< "n" >>, FALSE, << SuiteS >>) >>) >>) }

-----------------------------------------------------------------------------
(* The view provider's message handlers and the commands (webviewProvider.ts, *)
(* extension.ts).                                                            *)

\* applyConfig (webview script), for the 'environment' select
applyConfig(c) ==
    IF c.developmentEnvironment = << >> THEN << "uat" >> ELSE c.developmentEnvironment

\* getConfig (webview script): the form's values, the environment select included
getConfig(form) ==
    [ form EXCEPT !.selections = << >>, !.developmentEnvironment = wv_environment ]

\* resolveWebviewView, and the webview's getInitialState answered by sendInitialState
ResolveView ==
    /\ active /\ ~viewResolved
    /\ viewResolved' = TRUE
    /\ out' = Outcome("resolveView", FALSE, "void", "none", {}, {}, 0, NoPost)
    /\ wv_environment' = applyConfig(config)
    /\ UNCHANGED << procs, foreign, rs_isRunning, rs_port, rs_process, rs_pending,
                    tr_isRunning, tr_currentProcess, config, active, bc_call, rs_timers >>
    /\ UNCHANGED scanVars

\* message 'startResultsService': await start(data.port); updateServiceStatus()
MsgStartResultsService ==
    /\ active /\ viewResolved
    /\ \E port \in Ports : start(port, "msg")
    /\ UNCHANGED << tr_isRunning, tr_currentProcess, config, viewResolved, active, bc_call,
                    wv_environment >>
    /\ UNCHANGED scanVars

\* command rfTestRunner.startResultsService: start(); updateServiceStatus()
CmdStartResultsService ==
    /\ active
    /\ start(0, "cmd")
    /\ UNCHANGED << tr_isRunning, tr_currentProcess, config, viewResolved, active, bc_call,
                    wv_environment >>
    /\ UNCHANGED scanVars

\* message 'stopResultsService' and command rfTestRunner.stopResultsService:
\* stop(); updateServiceStatus()
StopResultsService ==
    /\ active
    /\ \E g \in GroupKillResults(rs_process), own \in SUBSET portHolders(rs_port),
          f \in ForeignOutcomes(rs_port) :
         LET r == stop(g, own, f) IN
         /\ procs' = r.procs
         /\ foreign' = r.foreign
         /\ rs_isRunning' = r.isRunning
         /\ out' = Outcome("rs.stop", rs_isRunning, r.ret, r.msg, r.signalled, r.foreignKilled, 0,
                           serviceStatus(r.isRunning, rs_port))
                    @@ [primary |-> r.primary, secondary |-> r.secondary]
    /\ UNCHANGED << rs_port, rs_process, rs_pending, tr_isRunning, tr_currentProcess,
                    config, viewResolved, active, bc_call, rs_timers, wv_environment >>
    /\ UNCHANGED scanVars

\* message 'runTests': config = {...config, ...data.config}; await run(mode, config)
MsgRunTests ==
    /\ active /\ viewResolved
    /\ \E mode \in Modes, form \in ViewConfigs :
         /\ config' = getConfig(form)
         /\ run(mode, getConfig(form))
    /\ UNCHANGED << foreign, rs_isRunning, rs_port, rs_process, rs_pending,
                    viewResolved, active, rs_timers, wv_environment >>
    /\ UNCHANGED scanVars

\* commands rfTestRunner.runTests / runTestsLocal: run(mode, this.config)
CmdRunTests ==
    /\ active
    /\ \E mode \in Modes : run(mode, config)
    /\ UNCHANGED << foreign, rs_isRunning, rs_port, rs_process, rs_pending, config,
                    viewResolved, active, rs_timers, wv_environment >>
    /\ UNCHANGED scanVars

\* message 'stopTests': testRunner.stop(); updateRunnerStatus()
MsgStopTests ==
    /\ active /\ viewResolved
    /\ \E k \in KillResults :
         LET r == tr_stop(k) IN
         /\ tr_isRunning' = r.isRunning
         /\ out' = Outcome("tr.stop", tr_isRunning, "void", r.msg, r.signalled, {}, 0,
                           runnerStatus(r.isRunning))
    /\ UNCHANGED << procs, foreign, rs_isRunning, rs_port, rs_process, rs_pending,
                    tr_currentProcess, config, viewResolved, active, bc_call, rs_timers,
                    wv_environment >>
    /\ UNCHANGED scanVars

\* message 'updateConfig': config = {...config, ...data.config}
MsgUpdateConfig ==
    /\ active /\ viewResolved
    /\ \E form \in ViewConfigs : config' = getConfig(form)
    /\ out' = Outcome("updateConfig", FALSE, "void", "none", {}, {}, 0, NoPost)
    /\ UNCHANGED << procs, foreign, rs_isRunning, rs_port, rs_process, rs_pending,
                    tr_isRunning, tr_currentProcess, viewResolved, active, bc_call, rs_timers,
                    wv_environment >>
    /\ UNCHANGED scanVars

\* deactivate(): if (resultsServiceManager) resultsServiceManager.stop()
Deactivate ==
    /\ active
    /\ active' = FALSE
    /\ \E g \in GroupKillResults(rs_process), own \in SUBSET portHolders(rs_port),
          f \in ForeignOutcomes(rs_port) :
         LET r == stop(g, own, f) IN
         /\ procs' = r.procs
         /\ foreign' = r.foreign
         /\ rs_isRunning' = r.isRunning
         /\ out' = Outcome("deactivate", rs_isRunning, r.ret, r.msg, r.signalled, r.foreignKilled, 0, NoPost)
    /\ UNCHANGED << rs_port, rs_process, rs_pending, tr_isRunning, tr_currentProcess,
                    config, viewResolved, bc_call, rs_timers, wv_environment >>
    /\ UNCHANGED scanVars

\* switchRunTab(tab) (webview script): the tab sets the environment select
SwitchRunTab ==
    /\ active /\ viewResolved
    /\ \E tab \in Modes :
         wv_environment' = (IF tab = "docker" THEN << "uat" >> ELSE << "stage" >>)
    /\ out' = Outcome("switchRunTab", FALSE, "void", "none", {}, {}, 0, NoPost)
    /\ UNCHANGED << procs, foreign, rs_isRunning, rs_port, rs_process, rs_pending,
                    tr_isRunning, tr_currentProcess, config, viewResolved, active, bc_call,
                    rs_timers >>
    /\ UNCHANGED scanVars

\* sendTestList: this._view?.webview.postMessage
testList == IF viewResolved THEN [type |-> "testList", running |-> FALSE, port |-> 0] ELSE NoPost

\* message 'refreshTests' and command rfTestRunner.refreshTests:
\* scanForTests(); sendTestList()
RefreshTests ==
    /\ active
    /\ testItems' = scanForTests(testItems, fsTests)
    /\ out' = Outcome("refreshTests", FALSE, "void", "none", {}, {}, 0, testList)
              @@ [hadItems |-> testItems # << >>]
    /\ UNCHANGED << procs, foreign, rs_isRunning, rs_port, rs_process, rs_pending,
                    tr_isRunning, tr_currentProcess, config, viewResolved, active, bc_call,
                    rs_timers, wv_environment, fsTests, pf_call >>

\* The folder 'Tests' is created, removed or changed by the user
FsChange ==
    /\ active
    /\ \E fs \in FsSamples : fs # fsTests /\ fsTests' = fs
    /\ out' = Outcome("fs.change", FALSE, "void", "none", {}, {}, 0, NoPost)
    /\ UNCHANGED << procs, foreign, rs_isRunning, rs_port, rs_process, rs_pending,
                    tr_isRunning, tr_currentProcess, config, viewResolved, active, bc_call,
                    rs_timers, wv_environment, testItems, pf_call >>

\* The host restarts after a deactivation: activate() constructs new supervisors
\* and a new provider.  The children of the old host are no longer this
\* extension's: a server among them that is alive still holds its port.
Restart ==
    /\ ~active
    /\ active' = TRUE
    /\ procs' = << >>
    /\ foreign' = [ p \in Ports |-> foreign[p] \/ portHolders(p) # {} ]
    /\ rs_isRunning' = FALSE
    /\ rs_port' = DefaultPort
    /\ rs_process' = 0
    /\ rs_pending' = << >>
    /\ rs_timers' = {}
    /\ tr_isRunning' = FALSE
    /\ tr_currentProcess' = 0
    /\ config' = defaultConfig
    /\ viewResolved' = FALSE
    /\ wv_environment' = << "uat" >>
    /\ bc_call' = NoCall
    /\ testItems' = scanForTests(<< >>, fsTests)
    /\ out' = Outcome("activate", FALSE, "void", "none", {}, {}, 0, NoPost)
              @@ [configBefore |-> config]
    /\ UNCHANGED << fsTests, pf_call >>

-----------------------------------------------------------------------------
(* Process events.  The model follows the extension up to its deactivation. *)

\* The callback of start()'s setTimeout(..., 1500).  The 'error' event of a failed
\* spawn is emitted on the next tick, long before the timer
TimerFire ==
    /\ active
    /\ \E t \in rs_timers :
         /\ procs[t.pid].st # "failed"
         /\ rs_timers' = rs_timers \ {t}
         /\ out' = Outcome("rs.timer", rs_isRunning, "void",
                           IF rs_isRunning THEN "info" ELSE "none", {}, {}, 0, NoPost)
                   @@ [timer |-> t, opened |-> IF rs_isRunning THEN t.port ELSE 0]
    /\ UNCHANGED << procs, foreign, rs_isRunning, rs_port, rs_process, rs_pending,
                    tr_isRunning, tr_currentProcess, config, viewResolved, active, bc_call,
                    wv_environment >>
    /\ UNCHANGED scanVars

\* A child process ends: by exiting, or by a signal
ProcExit ==
    /\ active
    /\ \E p \in DOMAIN procs, how \in {"exitedCode", "exitedSig"} :
         /\ procs[p].st = "alive"
         /\ procs' = [procs EXCEPT ![p].st = how]
    /\ out' = Outcome("exit", FALSE, "void", "none", {}, {}, 0, NoPost)
    /\ UNCHANGED << foreign, rs_isRunning, rs_port, rs_process, rs_pending, tr_isRunning,
                    tr_currentProcess, config, viewResolved, active, bc_call, rs_timers,
                    wv_environment >>
    /\ UNCHANGED scanVars

\* The 'close' handler registered by start() / run() for the process it spawned.
\* The results service writes a line to its output channel ("log"); the test
\* runner also shows an information or a warning message
ProcClose ==
    \E p \in DOMAIN procs :
      /\ active
      /\ procs[p].st \in {"exitedCode", "exitedSig"}
      /\ procs' = [procs EXCEPT ![p].st =
                      IF procs[p].st = "exitedCode" THEN "closedCode" ELSE "closedSig"]
      /\ IF procs[p].owner = "rs"
         THEN /\ rs_isRunning' = FALSE
              /\ out' = Outcome("rs.close", rs_isRunning, "void", "log", {}, {}, 0, NoPost)
              /\ UNCHANGED tr_isRunning
         ELSE /\ tr_isRunning' = FALSE
              /\ out' = Outcome("tr.close", tr_isRunning, "void",
                                IF procs[p].st = "exitedCode" THEN "info" ELSE "warning",
                                {}, {}, 0, NoPost)
              /\ UNCHANGED rs_isRunning
      /\ UNCHANGED << foreign, rs_port, rs_process, rs_pending, tr_currentProcess, config,
                      viewResolved, active, bc_call, rs_timers, wv_environment >>
      /\ UNCHANGED scanVars

\* The 'error' handler registered by start() / run(): the spawn failed
ProcError ==
    \E p \in DOMAIN procs :
      /\ active
      /\ procs[p].st = "failed"
      /\ procs' = [procs EXCEPT ![p].st = "errored"]
      /\ IF procs[p].owner = "rs"
         THEN /\ rs_isRunning' = FALSE
              /\ out' = Outcome("rs.error", rs_isRunning, "void", "error", {}, {}, 0, NoPost)
              /\ UNCHANGED tr_isRunning
         ELSE /\ tr_isRunning' = FALSE
              /\ out' = Outcome("tr.error", tr_isRunning, "void", "error", {}, {}, 0, NoPost)
              /\ UNCHANGED rs_isRunning
      /\ UNCHANGED << foreign, rs_port, rs_process, rs_pending, tr_currentProcess, config,
                      viewResolved, active, bc_call, rs_timers, wv_environment >>
      /\ UNCHANGED scanVars

-----------------------------------------------------------------------------
(* The extension: activate() constructs both supervisors and the provider.  *)

Init ==
    /\ procs = << >>
    /\ foreign \in [Ports -> BOOLEAN]
    /\ rs_isRunning = FALSE
    /\ rs_port = DefaultPort
    /\ rs_process = 0
    /\ rs_pending = << >>
    /\ tr_isRunning = FALSE
    /\ tr_currentProcess = 0
    /\ config = defaultConfig
    /\ viewResolved = FALSE
    /\ active = TRUE
    /\ bc_call = NoCall
    /\ rs_timers = {}
    /\ wv_environment = << "uat" >>
    /\ fsTests = NoTests
    /\ testItems = << >>
    /\ pf_call = NoParse
    /\ out = Outcome("activate", FALSE, "void", "none", {}, {}, 0, NoPost)

Next ==
    \/ ResolveView
    \/ MsgStartResultsService
    \/ CmdStartResultsService
    \/ StartResume
    \/ StopResultsService
    \/ MsgRunTests
    \/ CmdRunTests
    \/ MsgStopTests
    \/ MsgUpdateConfig
    \/ SwitchRunTab
    \/ RefreshTests
    \/ FsChange
    \/ Deactivate
    \/ Restart
    \/ TimerFire
    \/ ProcExit
    \/ ProcClose
    \/ ProcError

Spec == Init /\ [][Next]_vars

\* The two supervisors share no state: each is also checked on its own, with the
\* other one left as constructed
NextService ==
    \/ ResolveView
    \/ MsgStartResultsService
    \/ CmdStartResultsService
    \/ StartResume
    \/ StopResultsService
    \/ Deactivate
    \/ ProcExit
    \/ ProcClose
    \/ ProcError

SpecService == Init /\ [][NextService]_vars

NextRunner ==
    \/ ResolveView
    \/ MsgRunTests
    \/ CmdRunTests
    \/ MsgStopTests
    \/ MsgUpdateConfig
    \/ Deactivate
    \/ Restart
    \/ ProcExit
    \/ ProcClose
    \/ ProcError

SpecRunner == Init /\ [][NextRunner]_vars

\* The ways of running tests, with the run tabs of the view: the buttons, the
\* commands, the tab switches
NextEnvironment ==
    \/ ResolveView
    \/ SwitchRunTab
    \/ MsgRunTests
    \/ CmdRunTests
    \/ ProcExit
    \/ ProcClose
    \/ ProcError

SpecEnvironment == Init /\ [][NextEnvironment]_vars

\* The extension driven by its commands alone, the view never opened: both
\* supervisors and the browser-open timers
NextLifecycle ==
    \/ CmdStartResultsService
    \/ StartResume
    \/ StopResultsService
    \/ CmdRunTests
    \/ TimerFire
    \/ ProcExit
    \/ ProcClose
    \/ ProcError

SpecLifecycle == Init /\ [][NextLifecycle]_vars

\* Both supervisors driven by the commands, and the events of their processes
NextSupervisors ==
    \/ CmdStartResultsService
    \/ StartResume
    \/ StopResultsService
    \/ CmdRunTests
    \/ ProcExit
    \/ ProcClose
    \/ ProcError

SpecSupervisors == Init /\ [][NextSupervisors]_vars

\* Both supervisors with both stops, on a machine where no other program holds
\* the ports: the commands, the view's stop-tests button, the process events
InitIndependent ==
    /\ Init
    /\ foreign = [p \in Ports |-> FALSE]

NextIndependent ==
    \/ ResolveView
    \/ CmdStartResultsService
    \/ StartResume
    \/ StopResultsService
    \/ CmdRunTests
    \/ MsgStopTests
    \/ ProcExit
    \/ ProcClose
    \/ ProcError

SpecIndependent == InitIndependent /\ [][NextIndependent]_vars

\* The test runner driven from the view, with the scheduling the event loop
\* gives: the close or error event of a process that ended is delivered; the
\* user's actions and the death of a process may never come
NextViewStatus ==
    \/ ResolveView
    \/ MsgRunTests
    \/ MsgStopTests
    \/ ProcExit
    \/ ProcClose
    \/ ProcError

SpecViewStatus ==
    /\ Init
    /\ [][NextViewStatus]_vars
    /\ WF_vars(ProcClose)
    /\ WF_vars(ProcError)

\* The results service driven from the view, where the port is chosen, with
\* the browser-open timers
NextBrowser ==
    \/ ResolveView
    \/ MsgStartResultsService
    \/ StartResume
    \/ StopResultsService
    \/ TimerFire
    \/ ProcExit
    \/ ProcClose
    \/ ProcError

SpecBrowser == InitIndependent /\ [][NextBrowser]_vars

\* The test catalog on its own: the constructor's scan of the folder found on
\* disk, then refreshes and changes of the folder
InitCatalog ==
    /\ procs = << >>
    /\ foreign = [p \in Ports |-> FALSE]
    /\ rs_isRunning = FALSE
    /\ rs_port = DefaultPort
    /\ rs_process = 0
    /\ rs_pending = << >>
    /\ tr_isRunning = FALSE
    /\ tr_currentProcess = 0
    /\ config = defaultConfig
    /\ viewResolved = FALSE
    /\ active = TRUE
    /\ bc_call = NoCall
    /\ rs_timers = {}
    /\ wv_environment = << "uat" >>
    /\ fsTests \in FsSamples
    /\ testItems = scanForTests(<< >>, fsTests)
    /\ pf_call = NoParse
    /\ out = Outcome("activate", FALSE, "void", "none", {}, {}, 0, NoPost)

NextCatalog ==
    \/ ResolveView
    \/ RefreshTests
    \/ FsChange

SpecCatalog == InitCatalog /\ [][NextCatalog]_vars

-----------------------------------------------------------------------------
(* The command builder on its own: buildCommand applied to one input.      *)

MaxSelections == 2

\* Sequences over S of length at most n
RECURSIVE SeqsUpTo(_, _)
SeqsUpTo(S, n) ==
    IF n = 0 THEN { << >> }
    ELSE LET shorter == SeqsUpTo(S, n - 1)
         IN  shorter \cup { Append(q, x) : q \in shorter, x \in S }

\* TestSelection values: a suite, a test of the same suite file, a module
SampleSelections ==
    { [type |-> "suite",  name |-> << "s" >>, path |-> << "Tests/s.robot" >>],
      [type |-> "test",   name |-> << "t" >>, path |-> << "Tests/s.robot" >>],
      [type |-> "module", name |-> << "m" >>, path |-> << "Tests/m" >>] }

TestNameLists == { << >>, << << "T1" >> >>, << << "T1" >>, << "T", " ", "2" >> >> }

ImageNames == { << "robot-framework-custom:latest" >>, << "img:2" >> }

\* The flags: every combination of the bare switches and the mode-exclusive options
FlagConfigs ==
    { [ defaultConfig EXCEPT !.headless = b[1], !.maximizeBrowser = b[2],
                             !.fullWidthViewport = b[3], !.keepVncOpen = b[4],
                             !.autoCloseBrowser = b[5], !.installDependencies = b[6],
                             !.checkDeps = b[7], !.imageName = img ] :
        b \in [1..7 -> BOOLEAN], img \in ImageNames }

\* The options with values
ValueConfigs ==
    { [ defaultConfig EXCEPT !.captchaSolver = b[1], !.windowFull = b[2],
                             !.windowMaximized = b[3], !.runOffline = b[4],
                             !.devTools = b[5], !.chromeSecuritySandbox = b[6],
                             !.playwrightTracing = b[7], !.omitContent = b[8],
                             !.recordVideo = b[9], !.enableHar = b[10],
                             !.developmentEnvironment = env, !.windowHeight = h ] :
        b \in [1..10 -> BOOLEAN], env \in { << "uat" >>, << "stage" >> }, h \in {1080, 720} }

\* The free texts: custom test path, custom variables, test case names
TextConfigs ==
    { [ defaultConfig EXCEPT !.customTestPath = tp, !.customVariables = cv,
                             !.testCaseNames = tn ] :
        tp \in Texts(MaxTextLen), cv \in Texts(MaxTextLen), tn \in TestNameLists }

\* The selections, with a custom path that is empty, blank or given
SelectionConfigs ==
    { [ defaultConfig EXCEPT !.selections = sel, !.customTestPath = tp,
                             !.testCaseNames = tn ] :
        sel \in SeqsUpTo(SampleSelections, MaxSelections),
        tp \in { << >>, << " " >>, << "a" >> }, tn \in TestNameLists }

\* The custom variables: texts of several lines, over two letters
MaxVarLen == 6

VarChars == Chars \cup {"b"}

RECURSIVE TextsOver(_, _)
TextsOver(C, n) ==
    IF n = 0 THEN { << >> }
    ELSE LET shorter == TextsOver(C, n - 1)
         IN  shorter \cup { Append(t, ch) : t \in shorter, ch \in C }

VariableConfigs(n) ==
    { [ defaultConfig EXCEPT !.customVariables = cv ] : cv \in TextsOver(VarChars, n) }

\* The webview's test selection: the custom path field, the test tab shown, and
\* what is picked in each tab
NoTestCase == [name |-> << >>, suitePath |-> << >>]

WebviewSelections ==
    [ customTestPath   : { << >>, << " " >>, << "a", " " >> },
      currentTestTab   : {"single", "suite", "module"},
      selectedTestCase : { NoTestCase, [name |-> << "t" >>, suitePath |-> << "Tests/s.robot" >>] },
      selectedSuites   : { << >>, << << "Tests/s.robot" >> >>,
                           << << "Tests/m/s.robot" >>, << "Tests/s.robot" >> >> },
      selectedModule   : { << >>, << "Tests/m" >> } ]

\* getTestSelection (webview script)
getTestSelection(w) ==
    LET customPath == trim(w.customTestPath) IN
    IF customPath # << >> THEN [testPath |-> customPath, testNames |-> << >>]
    ELSE IF w.currentTestTab = "single" /\ w.selectedTestCase # NoTestCase
    THEN [testPath |-> w.selectedTestCase.suitePath,
          testNames |-> << w.selectedTestCase.name >>]
    ELSE IF w.currentTestTab = "suite" /\ Len(w.selectedSuites) > 0
    THEN [testPath |-> join(w.selectedSuites, << " " >>), testNames |-> << >>]
    ELSE IF w.currentTestTab = "module" /\ w.selectedModule # << >>
    THEN [testPath |-> w.selectedModule, testNames |-> << >>]
    ELSE [testPath |-> << "Tests" >>, testNames |-> << >>]

\* getConfig (webview script), for the selection: no structured selection is sent
selectionConfig(w) ==
    LET selection == getTestSelection(w) IN
    [ defaultConfig EXCEPT !.selections = << >>, !.customTestPath = selection.testPath,
                           !.testCaseNames = selection.testNames ]

WebviewConfigs == { selectionConfig(w) : w \in WebviewSelections }

CmdConfigs(varLen) ==
    FlagConfigs \cup ValueConfigs \cup TextConfigs \cup SelectionConfigs
    \cup VariableConfigs(varLen) \cup WebviewConfigs

InitCmd ==
    /\ procs = << >>
    /\ foreign = [p \in Ports |-> FALSE]
    /\ rs_isRunning = FALSE
    /\ rs_port = DefaultPort
    /\ rs_process = 0
    /\ rs_pending = << >>
    /\ tr_isRunning = FALSE
    /\ tr_currentProcess = 0
    /\ config = defaultConfig
    /\ viewResolved = FALSE
    /\ active = TRUE
    /\ \E mode \in Modes, c \in CmdConfigs(MaxVarLen) :
         bc_call = [mode |-> mode, config |-> c, testPath |-> << >>, result |-> << >>,
                    done |-> FALSE, repeat |-> FALSE]
    /\ rs_timers = {}
    /\ wv_environment = << "uat" >>
    /\ fsTests = NoTests
    /\ testItems = << >>
    /\ pf_call = NoParse
    /\ out = Outcome("activate", FALSE, "void", "none", {}, {}, 0, NoPost)

BuildCommandCall ==
    /\ ~bc_call.done
    /\ bc_call' = [bc_call EXCEPT !.testPath = getTestPath(bc_call.config),
                                  !.result = buildCommand(bc_call.mode, bc_call.config),
                                  !.done = TRUE]
    /\ UNCHANGED << procs, foreign, rs_isRunning, rs_port, rs_process, rs_pending,
                    tr_isRunning, tr_currentProcess, config, viewResolved, active, out,
                    rs_timers, wv_environment >>
    /\ UNCHANGED scanVars

NextCmd == BuildCommandCall

SpecCmd == InitCmd /\ [][NextCmd]_vars

-----------------------------------------------------------------------------
(* The suite-file parser on its own: parseRobotFile applied to one file.   *)

MaxLines == 4

HeaderTestCases == << "*", "*", "*", " ", "Test Cases", " ", "*", "*", "*" >>

HeaderTasks == << "*", "*", "*", "TASKS", "*", "*", "*" >>

HeaderSettings == << "*", "*", "*", " ", "Settings", " ", "*", "*", "*" >>

HeaderUnclosed == << "*", "*", "*", " ", "Keywords" >>

\* The lines a suite file is made of: headers, names, steps, comments, blanks
SampleLines ==
    { HeaderTestCases, HeaderTasks, HeaderSettings, HeaderUnclosed,
      << "x" >>, << "y", " " >>, << " ", " ", "k" >>, << "\t", "k" >>,
      << "#", "x" >>, << "[", "x" >>, << >> }

RobotFiles(n) ==
    { [readable |-> TRUE, content |-> join(lines, << "\n" >>)] :
        lines \in SeqsUpTo(SampleLines, n) }
    \cup { [readable |-> FALSE, content |-> HeaderTestCases \o << "\n", "x" >>] }

InitParse ==
    /\ procs = << >>
    /\ foreign = [p \in Ports |-> FALSE]
    /\ rs_isRunning = FALSE
    /\ rs_port = DefaultPort
    /\ rs_process = 0
    /\ rs_pending = << >>
    /\ tr_isRunning = FALSE
    /\ tr_currentProcess = 0
    /\ config = defaultConfig
    /\ viewResolved = FALSE
    /\ active = TRUE
    /\ bc_call = NoCall
    /\ rs_timers = {}
    /\ wv_environment = << "uat" >>
    /\ fsTests = NoTests
    /\ testItems = << >>
    /\ \E file \in RobotFiles(MaxLines) : pf_call = [file |-> file, result |-> << >>, done |-> FALSE]
    /\ out = Outcome("activate", FALSE, "void", "none", {}, {}, 0, NoPost)

ParseRobotFileCall ==
    /\ ~pf_call.done
    /\ pf_call' = [pf_call EXCEPT !.result = parseRobotFile(pf_call.file), !.done = TRUE]
    /\ UNCHANGED << procs, foreign, rs_isRunning, rs_port, rs_process, rs_pending,
                    tr_isRunning, tr_currentProcess, config, viewResolved, active, bc_call,
                    rs_timers, wv_environment, fsTests, testItems, out >>

NextParse == ParseRobotFileCall

SpecParse == InitParse /\ [][NextParse]_vars

-----------------------------------------------------------------------------
(* Claims.                                                                 *)

ContainsText(s, t) ==
    \E i \in 1..(Len(s) - Len(t) + 1) : SubSeq(s, i, i + Len(t) - 1) = t

\* C1: at most one results-server process spawned by ResultsServiceManager is
\* alive at any time, whatever the interleaving of start requests, stop requests
\* and process events.
C1_AtMostOneServerAlive == Cardinality(Alive("rs")) <= 1

\* C2: a start() called while isRunning is true returns false with a warning,
\* spawns nothing, kills nothing, and leaves the process handle, the stored port
\* and the running flag as they were.
C2_StartWhileRunningRejected ==
    [][ (rs_isRunning /\ out'.op \in {"rs.start", "rs.start.wait"})
        => /\ out'.ret = "false"
           /\ out'.msg = "warning"
           /\ out'.spawned = 0
           /\ out'.signalled = {}
           /\ out'.foreignKilled = {}
           /\ UNCHANGED << procs, foreign, rs_process, rs_port, rs_isRunning, rs_pending >>
      ]_vars

\* A start() has been rejected while the server process was alive
C2_Witness ==
    /\ out.op = "rs.start" /\ out.wasRunning /\ out.ret = "false"
    /\ rs_isRunning /\ rs_process # 0 /\ procs[rs_process].st = "alive"

\* C3: stop() on a manager that was never started returns false with a warning
\* and signals or kills no process.
C3_StopNeverStarted ==
    (out.op = "rs.stop" /\ rs_process = 0 /\ procs = << >> /\ rs_pending = << >>)
    => /\ out.ret = "false"
       /\ out.msg = "warning"
       /\ out.signalled = {}
       /\ out.foreignKilled = {}

\* C4: every stop() invoked while isRunning is true ends with isRunning false,
\* whichever kill steps fail, and the stop-results-service action posts a status
\* with running = false to the view.
C4_StopEndsStopped ==
    (out.op \in {"rs.stop", "deactivate"} /\ out.wasRunning)
    => /\ ~rs_isRunning
       /\ (out.op = "rs.stop" /\ viewResolved)
          => out.posted = [type |-> "serviceStatus", running |-> FALSE, port |-> rs_port]

\* A stop() of a running service whose kill steps all failed: the process is
\* still alive, the flag is cleared and the status is posted
C4_Witness ==
    /\ out.op = "rs.stop" /\ out.wasRunning
    /\ out.signalled = {} /\ out.foreignKilled = {}
    /\ rs_process # 0 /\ procs[rs_process].st = "alive"
    /\ ~rs_isRunning
    /\ out.posted.type = "serviceStatus" /\ ~out.posted.running

\* C5: at most one test-run process spawned by TestRunner is alive at any time,
\* and run() called while isRunning is true spawns nothing and only warns.
C5_AtMostOneTestRunAlive ==
    /\ Cardinality(Alive("tr")) <= 1
    /\ (out.op = "tr.run" /\ out.wasRunning) => (out.spawned = 0 /\ out.msg = "warning")

\* C6: start / run while running and stop while stopped change nothing, signal
\* no process and show a warning; in particular stop-tests with no test running
\* shows a warning.
C6_AlreadySatisfiedWarns ==
    /\ (out.op = "rs.start" /\ out.wasRunning)
       => (out.msg = "warning" /\ out.spawned = 0 /\ out.signalled = {})
    /\ (out.op = "tr.run" /\ out.wasRunning)
       => (out.msg = "warning" /\ out.spawned = 0 /\ out.signalled = {})
    /\ (out.op = "rs.stop" /\ ~out.wasRunning)
       => (out.msg = "warning" /\ out.signalled = {} /\ out.foreignKilled = {})
    /\ (out.op = "tr.stop" /\ ~out.wasRunning)
       => (out.msg = "warning" /\ out.signalled = {})

\* C7: after deactivation no supervisor has isRunning = true and every child that
\* was running has been signalled.
C7_DeactivateStopsAll ==
    ~active => /\ ~rs_isRunning
               /\ ~tr_isRunning
               /\ (Alive("rs") \cup Alive("tr")) \subseteq out.signalled

\* C8: the command ends with the resolved test path, after every flag, -v pair
\* and --test pair.
C8_TestPathLast ==
    bc_call.done
    => EndsWith(bc_call.result, << " " >> \o getTestPath(bc_call.config))

\* A command built from a custom path, custom variables and test case names
C8_Witness ==
    /\ bc_call.done
    /\ trim(bc_call.config.customTestPath) # << >>
    /\ trim(bc_call.config.customVariables) # << >>
    /\ Len(bc_call.config.testCaseNames) > 0

DockerOnlyOptions ==
    {"--maximize-browser", "--full-width-viewport", "--keep-vnc-open", "--auto-close-browser"}

LocalOnlyOptions == {"--install-dependencies", "--check-deps"}

\* C9: a local command holds no container-only option and no image name, a docker
\* command holds no local-only option, whatever the values of those fields.
C9_NoOptionOfTheOtherMode ==
    bc_call.done
    => /\ bc_call.mode = "local"
          => /\ \A o \in DockerOnlyOptions : ~includes(bc_call.result, o)
             /\ ~ContainsText(bc_call.result, bc_call.config.imageName)
       /\ bc_call.mode = "docker"
          => \A o \in LocalOnlyOptions : ~includes(bc_call.result, o)

\* A local command built from a config with every container-only option set
C9_Witness ==
    /\ bc_call.done /\ bc_call.mode = "local"
    /\ bc_call.config.maximizeBrowser /\ bc_call.config.fullWidthViewport
    /\ bc_call.config.keepVncOpen /\ bc_call.config.autoCloseBrowser
    /\ bc_call.config.imageName = << "img:2" >>

NthOf(S, n) == CHOOSE x \in S : Cardinality({ y \in S : y < x }) = n - 1

\* The positions of the -v options in a command, and the quoted text after each
VPositions(r) == { i \in 1..Len(r) : r[i] = "-v" }

QuotedAt(r, i) ==
    LET q == CHOOSE k \in (i + 3)..Len(r) :
                 r[k] = "\"" /\ \A h \in (i + 3)..(k - 1) : r[h] # "\""
    IN  SubSeq(r, i + 3, q - 1)

VPairs(r) ==
    [ n \in 1..Cardinality(VPositions(r)) |-> QuotedAt(r, NthOf(VPositions(r), n)) ]

\* The lines of a text that are not blank, trimmed, in the order of the text
NonBlankLines(text) ==
    LET lines == split(text, "\n")
        keep == { i \in 1..Len(lines) : \E h \in 1..Len(lines[i]) : ~IsWs(lines[i][h]) }
    IN  [ n \in 1..Cardinality(keep) |-> trim(lines[NthOf(keep, n)]) ]

\* C11: the command holds exactly one -v pair for each line of customVariables
\* that is not blank, carrying the trimmed line, in the order of the lines, and
\* no -v pair for a blank or whitespace-only line.
C11_OnePairPerNonBlankLine ==
    bc_call.done
    => /\ VPairs(bc_call.result) = NonBlankLines(bc_call.config.customVariables)
       /\ \A i \in VPositions(bc_call.result) :
             bc_call.result[i + 1] = " " /\ bc_call.result[i + 2] = "\""

\* The command built from the lines a, b, an empty line and a whitespace-only line
C11_Witness ==
    /\ bc_call.done
    /\ bc_call.config.customVariables = << "a", "\n", "b", "\n", "\n", " " >>
    /\ VPairs(bc_call.result) = << << "a" >>, << "b" >> >>

\* The paths of the selections, each once, in the order of its first occurrence
DistinctPaths(sels) ==
    LET first == { i \in 1..Len(sels) : \A j \in 1..(i - 1) : sels[j].path # sels[i].path }
    IN  [ n \in 1..Cardinality(first) |-> sels[NthOf(first, n)].path ]

\* C12: the resolved test path has one source, by precedence: the custom path
\* when it is not blank (the selections are ignored), else the distinct paths
\* of the selections in first-occurrence order, else the default 'Tests'.
C12_OneSelectionSourceWins ==
    bc_call.done
    => LET c == bc_call.config IN
       /\ (\E h \in 1..Len(c.customTestPath) : ~IsWs(c.customTestPath[h]))
          => bc_call.testPath = trim(c.customTestPath)
       /\ ((\A h \in 1..Len(c.customTestPath) : IsWs(c.customTestPath[h]))
           /\ c.selections # << >>)
          => bc_call.testPath = join(DistinctPaths(c.selections), << " " >>)
       /\ ((\A h \in 1..Len(c.customTestPath) : IsWs(c.customTestPath[h]))
           /\ c.selections = << >>)
          => bc_call.testPath = << "Tests" >>

\* A whitespace-only custom path with two selections of one suite file (the
\* suite and a test of it): the path of the file, once
C12_Witness ==
    /\ bc_call.done
    /\ bc_call.config.customTestPath = << " " >>
    /\ Len(bc_call.config.selections) = 2
    /\ bc_call.config.selections[1].path = bc_call.config.selections[2].path
    /\ bc_call.config.selections[1].type # bc_call.config.selections[2].type
    /\ bc_call.testPath = << "Tests/s.robot" >>

\* A trimmed line is a '***'-delimited header: '***', a name, '***'
IsDelimitedHeader(t) == starsAt(t, 1) /\ \E j \in 4..Len(t) : starsAt(t, j)

\* The name between the stars of a delimited header holds 'test case' or 'task'
NamesTestSection(t) ==
    LET j == CHOOSE x \in 4..Len(t) : starsAt(t, x) /\ \A y \in 4..(x - 1) : ~starsAt(t, y)
    IN  \E i \in 4..(j - 1) : Lower(t[i]) \in {"test cases", "test case", "tasks", "task"}

\* Line i lies in a section whose delimited header names test cases or tasks
InTestSection(lines, i) ==
    LET H == { h \in 1..(i - 1) : IsDelimitedHeader(trim(lines[h])) }
    IN  /\ H # {}
        /\ NamesTestSection(trim(lines[CHOOSE h \in H : \A g \in H : g <= h]))

\* Line i is non-empty, not indented, and no comment or bracketed line
IsNameLine(lines, i) ==
    /\ trim(lines[i]) # << >>
    /\ lines[i][1] \notin {" ", "\t"}
    /\ trim(lines[i])[1] \notin {"#", "["}

TrimmedLinesAt(lines, keep) ==
    [ n \in 1..Cardinality(keep) |-> trim(lines[NthOf(keep, n)]) ]

\* C13 as stated: parseRobotFile returns, in file order, exactly the trimmed
\* lines inside a section whose '***'-delimited header names test cases or tasks
\* that are non-empty, not indented and no comment or bracketed line; no header
\* line is returned.
C13_ExactlyTheNameLines ==
    (pf_call.done /\ pf_call.file.readable)
    => LET lines == split(pf_call.file.content, "\n")
           keep == { i \in 1..Len(lines) :
                       /\ InTestSection(lines, i)
                       /\ IsNameLine(lines, i)
                       /\ ~IsDelimitedHeader(trim(lines[i])) }
       IN  pf_call.result = TrimmedLinesAt(lines, keep)

\* C13, amended: as stated, and no line that starts with '***' is returned,
\* whether or not it has the closing '***' of a header (such a line without the
\* closing stars also leaves the section as it was); a file that cannot be read
\* yields no name.
C13_NameLinesButNoStarLine ==
    pf_call.done
    => LET lines == split(pf_call.file.content, "\n")
           keep == { i \in 1..Len(lines) :
                       /\ InTestSection(lines, i)
                       /\ IsNameLine(lines, i)
                       /\ ~starsAt(trim(lines[i]), 1) }
       IN  pf_call.result = IF pf_call.file.readable THEN TrimmedLinesAt(lines, keep)
                            ELSE << >>

\* The file of the scenario: a Test Cases header, two names (one with a trailing
\* blank), an indented step
C13_Witness ==
    /\ pf_call.done
    /\ pf_call.file.readable
    /\ split(pf_call.file.content, "\n")
         = << HeaderTestCases, << "x" >>, << "y", " " >>, << " ", " ", "k" >> >>
    /\ pf_call.result = << << "x" >>, << "y" >> >>

\* C14: a scan made while the folder 'Tests' does not exist, by the constructor
\* or by a refresh, leaves the catalog empty and throws nothing, also when the
\* scan before it had found tests.
C14_MissingFolderEmptyCatalog ==
    (out.op \in {"activate", "refreshTests"} /\ ~fsTests.exists)
    => /\ testItems = << >>
       /\ out.ret = "void"
       /\ out.msg = "none"

\* A refresh after the folder was removed, the catalog having held tests
C14_Witness ==
    /\ out.op = "refreshTests"
    /\ out.hadItems
    /\ ~fsTests.exists
    /\ testItems = << >>

\* C15: a run made with a configuration untouched but for the environment the
\* view fills in passes 'uat' to a docker run and 'stage' to a local run,
\* whether it was triggered by a button or by a command.
C15_EnvironmentDefaultsByMode ==
    ( /\ out.op = "tr.run" /\ ~out.wasRunning
      /\ bc_call.config = [ defaultConfig EXCEPT !.developmentEnvironment =
                                                     bc_call.config.developmentEnvironment ] )
    => bc_call.config.developmentEnvironment
         = (IF bc_call.mode = "docker" THEN << "uat" >> ELSE << "stage" >>)

\* C16: after a restart of the host the new provider holds the configuration
\* the provider held just before the restart, whatever updateConfig and
\* runTests messages had set it.
C16_ConfigSurvivesRestart ==
    (out.op = "activate" /\ "configBefore" \in DOMAIN out)
    => config = out.configBefore

\* C17: in an accepted start() the port-conflict step has completed before the
\* server is spawned: a call that found a process on the port and signalled it
\* spawns nothing in that turn and leaves the flag as it was; a server is
\* spawned only by a call whose lsof found nothing or by a call resumed after
\* the wait; and the running flag becomes true only in the step that spawns.
C17_PortStepBeforeSpawn ==
    [][ /\ out'.op = "rs.start.wait"
           => (procs' = procs /\ rs_isRunning' = rs_isRunning /\ out'.spawned = 0)
        /\ (Len(procs') > Len(procs) /\ procs'[Len(procs')].owner = "rs")
           => \/ /\ out'.op = "rs.start"
                 /\ out'.signalled = {} /\ out'.foreignKilled = {}
                 /\ ~foreign'[rs_port'] \/ foreign[rs_port']
              \/ /\ out'.op = "rs.start.resume"
                 /\ rs_pending # << >> /\ rs_pending' = Tail(rs_pending)
                 /\ procs'[Len(procs')].port = Head(rs_pending).port
        /\ (~rs_isRunning /\ rs_isRunning')
           => /\ Len(procs') = Len(procs) + 1
              /\ rs_process' = Len(procs')
              /\ out'.spawned = rs_process'
      ]_vars

\* A start() that found a process on the port, signalled it and waited has
\* resumed and spawned the server: the flag is true from this step on
C17_Witness ==
    /\ out.op = "rs.start.resume" /\ ~out.wasRunning
    /\ out.spawned # 0 /\ rs_process = out.spawned
    /\ rs_isRunning

\* C18: the results server is spawned as the leader of a process group of its
\* own, and after a stop() of a running service that reports success the
\* spawned process has been signalled (none of its group is left unsignalled).
C18_GroupSignalReachesServer ==
    /\ \A p \in DOMAIN procs : (procs[p].owner = "rs" /\ hasPid(p)) => isGroupLeader(p)
    /\ (out.op = "rs.stop" /\ out.wasRunning /\ out.ret = "true" /\ hasPid(rs_process))
       => (rs_process \in out.signalled \/ procs[rs_process].st # "alive")

\* C19: the timer armed by a successful start() opens the browser and shows the
\* 'started' message only if the service that start() started is still
\* running when the timer fires: its process is alive and is still the
\* manager's process (the service was not stopped in between).
C19_BrowserOnlyIfStillRunning ==
    (out.op = "rs.timer" /\ (out.opened # 0 \/ out.msg = "info"))
    => /\ procs[out.timer.pid].st = "alive"
       /\ rs_process = out.timer.pid

C21_KillFallbackAndESRCH ==
    out.op = "rs.stop" =>
        /\ out.primary \in {"ESRCH", "EPERM"} => out.secondary
        /\ out.msg = "error"
              => (out.primary \notin {"ok"} /\ out.signalled = {} /\ out.foreignKilled = {})
        /\ out.primary = "ESRCH"
              => (out.ret = "true" /\ ~rs_isRunning /\ out.msg # "error")

\* The group signal of a running service met no such process, and the kill by
\* port that followed reached the server: it is dead, the stop succeeded
C21_Witness ==
    /\ out.op = "rs.stop" /\ out.wasRunning
    /\ out.primary = "ESRCH" /\ out.secondary
    /\ rs_process \in out.signalled /\ procs[rs_process].st = "exitedSig"
    /\ out.ret = "true" /\ ~rs_isRunning

\* The operations and events of each supervisor, as the handlers record them
ServiceOps == {"rs.start", "rs.start.wait", "rs.start.resume", "rs.stop", "rs.close", "rs.error"}

RunnerOps == {"tr.run", "tr.stop", "tr.close", "tr.error"}

OwnedBy(owner) == { p \in DOMAIN procs : procs[p].owner = owner }

C23_ModeOptionsIncluded ==
    bc_call.done
    => /\ bc_call.mode = "docker"
          => ContainsText(bc_call.result, bc_call.config.imageName)
       /\ bc_call.mode = "local"
          => /\ bc_call.config.installDependencies
                   => includes(bc_call.result, "--install-dependencies")
             /\ bc_call.config.checkDeps => includes(bc_call.result, "--check-deps")

\* A suite file: a '.robot' file whose name does not start with '__init__'
IsSuiteFile(entry) ==
    /\ ~entry.isDirectory
    /\ EndsWith(entry.name, << ".robot" >>)
    /\ ~startsWith(entry.name, << "__init__" >>)

\* The directory entry has a suite file somewhere below it
RECURSIVE HasSuiteBelow(_)
HasSuiteBelow(entry) ==
    /\ entry.isDirectory
    /\ \E i \in 1..Len(entry.entries) :
          IsSuiteFile(entry.entries[i]) \/ HasSuiteBelow(entry.entries[i])

IsLeafTest(item, suite) ==
    /\ item.type = "test"
    /\ item.children = << >>
    /\ item.path = suite.path

\* items is a well-formed catalog of the directory entries dirEntries
RECURSIVE WellFormedItems(_, _)
WellFormedItems(items, dirEntries) ==
    \A i \in 1..Len(items) :
        LET item == items[i] IN
        \/ /\ item.type = "suite"
           /\ \A k \in 1..Len(item.children) : IsLeafTest(item.children[k], item)
        \/ /\ item.type = "module"
           /\ item.children # << >>
           /\ \E e \in 1..Len(dirEntries) :
                 /\ dirEntries[e].name = item.name
                 /\ HasSuiteBelow(dirEntries[e])
                 /\ WellFormedItems(item.children, dirEntries[e].entries)

\* C24: in the catalog a scan has just produced, every module node has
\* children and stands for a directory with a suite file somewhere below it,
\* every child of a suite node is a test node with the suite's path, and
\* every test node is a leaf.
C24_CatalogWellFormed ==
    out.op \in {"activate", "refreshTests"}
    => WellFormedItems(testItems, fsTests.entries)

\* A scan of a folder with a sub-folder that has a sub-folder without a suite
\* file: the catalog holds a module with a suite of two tests
C24_Witness ==
    /\ out.op = "refreshTests"
    /\ \E i \in 1..Len(testItems) :
          /\ testItems[i].type = "module"
          /\ \E k \in 1..Len(testItems[i].children) :
                /\ testItems[i].children[k].type = "suite"
                /\ Len(testItems[i].children[k].children) = 2
    /\ \E e \in 1..Len(fsTests.entries) :
          /\ fsTests.entries[e].isDirectory
          /\ \E d \in 1..Len(fsTests.entries[e].entries) :
                /\ fsTests.entries[e].entries[d].isDirectory
                /\ ~HasSuiteBelow(fsTests.entries[e].entries[d])

\* The directory can be read and a suite file is found below it by going
\* through directories that can be read
RECURSIVE HasReachableSuite(_)
HasReachableSuite(entry) ==
    /\ entry.isDirectory /\ entry.readable
    /\ \E i \in 1..Len(entry.entries) :
          IsSuiteFile(entry.entries[i]) \/ HasReachableSuite(entry.entries[i])

\* items holds a node for every suite file and every directory of dirEntries
\* that the scan can reach
RECURSIVE CoversEntries(_, _, _)
CoversEntries(items, dirEntries, relativePath) ==
    \A e \in 1..Len(dirEntries) :
        LET entry == dirEntries[e]
            itemPath == pathJoin(relativePath, entry.name)
        IN  /\ IsSuiteFile(entry)
                 => \E i \in 1..Len(items) :
                      /\ items[i].type = "suite" /\ items[i].path = itemPath
                      /\ Len(items[i].children)
                           = (IF entry.readable
                              THEN Len(parseLines(split(entry.content, "\n"), FALSE, << >>))
                              ELSE 0)
            /\ HasReachableSuite(entry)
                 => \E i \in 1..Len(items) :
                      /\ items[i].type = "module" /\ items[i].path = itemPath
                      /\ CoversEntries(items[i].children, entry.entries, itemPath)

\* C25: a scan of a folder that can be read returns a node for every suite
\* file and every directory with suites it can reach, whatever else in the
\* tree cannot be read: an unreadable file is a suite without tests, an
\* unreadable directory has no node; the scan throws nothing and shows nothing.
C25_ReadErrorsDoNotAbortScan ==
    (out.op \in {"activate", "refreshTests"} /\ fsTests.exists)
    => /\ fsTests.readable => CoversEntries(testItems, fsTests.entries, << "Tests" >>)
       /\ ~fsTests.readable => testItems = << >>
       /\ out.ret = "void" /\ out.msg = "none"

\* A refresh of a folder whose first suite file cannot be read: the catalog
\* holds that suite without tests and, after it, the suite read with its tests
C25_Witness ==
    /\ out.op = "refreshTests"
    /\ Len(fsTests.entries) = 2
    /\ IsSuiteFile(fsTests.entries[1]) /\ ~fsTests.entries[1].readable
    /\ Len(testItems) = 2
    /\ testItems[1].type = "suite" /\ testItems[1].children = << >>
    /\ testItems[2].type = "suite" /\ Len(testItems[2].children) = 2

\* C26: every stop() of the test runner called while a test run is active ends
\* with isRunning false, also when signalling the process throws.
C26_RunnerStopEndsStopped ==
    (out.op = "tr.stop" /\ out.wasRunning) => ~tr_isRunning

\* The process of the current test run has just ended on its own (the runner
\* was not asked to stop it) while the view is shown
RunExitedOnItsOwn ==
    /\ viewResolved
    /\ out.op = "exit"
    /\ tr_isRunning /\ tr_currentProcess # 0
    /\ procs[tr_currentProcess].st \in {"exitedCode", "exitedSig"}

\* C27: whenever the process of a test run ends on its own while the view is
\* shown, a runnerStatus message with running = false is eventually posted
\* to the view, whether or not the user does anything more.
C27_ViewLearnsOfExit ==
    RunExitedOnItsOwn ~> (out.posted.type = "runnerStatus" /\ ~out.posted.running)

\* C28: whenever a timer opens the browser, the port of the URL it opens is
\* the port of the results server the manager is running at that moment.
C28_OpenedPortIsRunningPort ==
    (out.op = "rs.timer" /\ out.opened # 0)
    => /\ rs_process # 0
       /\ procs[rs_process].port = out.opened
       /\ rs_port = out.opened

\* C29: when a start() requested by the view's message or by the command has
\* settled with success and the view is shown, the status posted to the view
\* for that request is the one that holds then: running, on the stored port.
C29_StartStatusAfterSettled ==
    (out.op \in {"rs.start", "rs.start.resume"} /\ out.ret = "true" /\ viewResolved)
    => out.posted = [type |-> "serviceStatus", running |-> rs_isRunning, port |-> rs_port]

\* The most recently spawned test process has emitted neither close nor error
RunPending ==
    /\ tr_currentProcess # 0
    /\ procs[tr_currentProcess].st \in {"alive", "exitedCode", "exitedSig", "failed"}

\* C30: while the most recently spawned test process has emitted neither close
\* nor error and its run has not been stopped (isRunning is true), the close
\* or error event of an earlier process leaves isRunning true, so that a
\* stop-tests request still signals the process of the current run.
C30_LateCloseKeepsNewRunStoppable ==
    [][
        ( /\ tr_isRunning /\ RunPending
          /\ out'.op \in {"tr.close", "tr.error"}
          /\ procs'[tr_currentProcess] = procs[tr_currentProcess] )
        => tr_isRunning'
    ]_vars

====
